---- MODULE Spec2Model ----
(***************************************************************************)
(* A model of the shell-command detector (src/shell/is_shell.rs) and of    *)
(* the REPL loop that drives it (src/main.rs).                             *)
(*                                                                         *)
(* A text (Rust &str / String) is a sequence of one-character strings, so  *)
(* that trimming, tokenizing, quote scanning and pattern matching are      *)
(* computed character by character, as the code computes them.             *)
(***************************************************************************)
EXTENDS Integers, Sequences, FiniteSets, TLC

----------------------------------------------------------------------------
(* Characters and the std string primitives the code calls.                *)

LowerLetters ==
  {"a", "b", "c", "d", "e", "f", "g", "h", "i", "j", "k", "l", "m", "n", "o", "p", "q", "r", "s", "t", "u", "v", "w", "x", "y", "z"}
LowerCaseOf ==
  "A" :> "a" @@ "B" :> "b" @@ "C" :> "c" @@ "D" :> "d" @@ "E" :> "e" @@ "F" :> "f" @@
  "G" :> "g" @@ "H" :> "h" @@ "I" :> "i" @@ "J" :> "j" @@ "K" :> "k" @@ "L" :> "l" @@
  "M" :> "m" @@ "N" :> "n" @@ "O" :> "o" @@ "P" :> "p" @@ "Q" :> "q" @@ "R" :> "r" @@
  "S" :> "s" @@ "T" :> "t" @@ "U" :> "u" @@ "V" :> "v" @@ "W" :> "w" @@ "X" :> "x" @@
  "Y" :> "y" @@ "Z" :> "z"
Digits == {"0", "1", "2", "3", "4", "5", "6", "7", "8", "9"}

\* char::is_whitespace, restricted to the characters of the model
IsWhitespace(c) == c \in {" ", "\t", "\n"}

\* the regex class \w, restricted to the characters of the model
IsWordChar(c) == c \in LowerLetters \/ c \in DOMAIN LowerCaseOf \/ c \in Digits \/ c = "_"

\* str::to_lowercase
to_lowercase(text) ==
  [i \in 1..Len(text) |->
     IF text[i] \in DOMAIN LowerCaseOf THEN LowerCaseOf[text[i]] ELSE text[i]]

\* str::starts_with
starts_with(text, prefix) ==
  /\ Len(prefix) <= Len(text)
  /\ \A i \in 1..Len(prefix) : text[i] = prefix[i]

\* str::ends_with(char)
ends_with(text, c) == Len(text) > 0 /\ text[Len(text)] = c

\* str::contains(char)
contains(text, c) == \E i \in 1..Len(text) : text[i] = c

\* str::trim: the text without its leading and trailing whitespace
trim(text) ==
  LET keep == {i \in 1..Len(text) : ~IsWhitespace(text[i])}
  IN  IF keep = {} THEN <<>>
      ELSE LET lo == CHOOSE i \in keep : \A j \in keep : i <= j
               hi == CHOOSE i \in keep : \A j \in keep : j <= i
           IN  SubSeq(text, lo, hi)

\* str::find(char): the index of the first occurrence, 0 when there is none
find(text, c) ==
  LET hits == {i \in 1..Len(text) : text[i] = c}
  IN  IF hits = {} THEN 0 ELSE CHOOSE i \in hits : \A j \in hits : i <= j

\* str::split_whitespace, collected: the maximal runs of non-whitespace
RECURSIVE SplitWhitespaceFrom(_, _, _, _)
SplitWhitespaceFrom(text, i, word, words) ==
  LET flushed == IF word = <<>> THEN words ELSE Append(words, word)
  IN  IF i > Len(text) THEN flushed
      ELSE IF IsWhitespace(text[i])
           THEN SplitWhitespaceFrom(text, i + 1, <<>>, flushed)
           ELSE SplitWhitespaceFrom(text, i + 1, Append(word, text[i]), words)

split_whitespace(text) == SplitWhitespaceFrom(text, 1, <<>>, <<>>)

\* [String]::join(" ")
RECURSIVE join(_)
join(words) ==
  IF words = <<>> THEN <<>>
  ELSE IF Len(words) = 1 THEN words[1]
  ELSE words[1] \o <<" ">> \o join(Tail(words))

\* str::eq_ignore_ascii_case
eq_ignore_ascii_case(a, b) == to_lowercase(a) = to_lowercase(b)

----------------------------------------------------------------------------
(* shell_words::split, the tokenizer is_shell_command calls: a scan of the *)
(* characters through the states Delimiter, Backslash, Unquoted,           *)
(* UnquotedBackslash, SingleQuoted, DoubleQuoted, DoubleQuotedBackslash    *)
(* and Comment.  The result is [ok, words]; ok is FALSE for the crate's    *)
(* ParseError (input ends inside a quoted span).                           *)

RECURSIVE ShellSplitFrom(_, _, _, _, _)
ShellSplitFrom(text, i, state, word, words) ==
  LET atEnd == i > Len(text)
      c == IF atEnd THEN "" ELSE text[i]
      push == Append(words, word)
      delim == c \in {"\t", " ", "\n"}
  IN
  CASE state = "Delimiter" ->
         IF atEnd THEN [ok |-> TRUE, words |-> words]
         ELSE IF c = "'" THEN ShellSplitFrom(text, i + 1, "SingleQuoted", word, words)
         ELSE IF c = "\"" THEN ShellSplitFrom(text, i + 1, "DoubleQuoted", word, words)
         ELSE IF c = "\\" THEN ShellSplitFrom(text, i + 1, "Backslash", word, words)
         ELSE IF delim THEN ShellSplitFrom(text, i + 1, "Delimiter", word, words)
         ELSE IF c = "#" THEN ShellSplitFrom(text, i + 1, "Comment", word, words)
         ELSE ShellSplitFrom(text, i + 1, "Unquoted", Append(word, c), words)
    [] state = "Backslash" ->
         IF atEnd THEN [ok |-> TRUE, words |-> Append(words, Append(word, "\\"))]
         ELSE IF c = "\n" THEN ShellSplitFrom(text, i + 1, "Delimiter", word, words)
         ELSE ShellSplitFrom(text, i + 1, "Unquoted", Append(word, c), words)
    [] state = "Unquoted" ->
         IF atEnd THEN [ok |-> TRUE, words |-> push]
         ELSE IF c = "'" THEN ShellSplitFrom(text, i + 1, "SingleQuoted", word, words)
         ELSE IF c = "\"" THEN ShellSplitFrom(text, i + 1, "DoubleQuoted", word, words)
         ELSE IF c = "\\" THEN ShellSplitFrom(text, i + 1, "UnquotedBackslash", word, words)
         ELSE IF delim THEN ShellSplitFrom(text, i + 1, "Delimiter", <<>>, push)
         ELSE ShellSplitFrom(text, i + 1, "Unquoted", Append(word, c), words)
    [] state = "UnquotedBackslash" ->
         IF atEnd THEN [ok |-> TRUE, words |-> Append(words, Append(word, "\\"))]
         ELSE IF c = "\n" THEN ShellSplitFrom(text, i + 1, "Unquoted", word, words)
         ELSE ShellSplitFrom(text, i + 1, "Unquoted", Append(word, c), words)
    [] state = "SingleQuoted" ->
         IF atEnd THEN [ok |-> FALSE, words |-> <<>>]
         ELSE IF c = "'" THEN ShellSplitFrom(text, i + 1, "Unquoted", word, words)
         ELSE ShellSplitFrom(text, i + 1, "SingleQuoted", Append(word, c), words)
    [] state = "DoubleQuoted" ->
         IF atEnd THEN [ok |-> FALSE, words |-> <<>>]
         ELSE IF c = "\"" THEN ShellSplitFrom(text, i + 1, "Unquoted", word, words)
         ELSE IF c = "\\" THEN ShellSplitFrom(text, i + 1, "DoubleQuotedBackslash", word, words)
         ELSE ShellSplitFrom(text, i + 1, "DoubleQuoted", Append(word, c), words)
    [] state = "DoubleQuotedBackslash" ->
         IF atEnd THEN [ok |-> FALSE, words |-> <<>>]
         ELSE IF c = "\n" THEN ShellSplitFrom(text, i + 1, "DoubleQuoted", word, words)
         ELSE IF c \in {"$", "\"", "\\"}  \* and the backquote, no character of the model
              THEN ShellSplitFrom(text, i + 1, "DoubleQuoted", Append(word, c), words)
         ELSE ShellSplitFrom(text, i + 1, "DoubleQuoted", Append(Append(word, "\\"), c), words)
    [] OTHER -> \* Comment
         IF atEnd THEN [ok |-> TRUE, words |-> words]
         ELSE IF c = "\n" THEN ShellSplitFrom(text, i + 1, "Delimiter", word, words)
         ELSE ShellSplitFrom(text, i + 1, "Comment", word, words)

shell_words_split(text) == ShellSplitFrom(text, 1, "Delimiter", <<>>, <<>>)

----------------------------------------------------------------------------
(* The regex crate's is_match for the shapes natural_indicators uses:      *)
(* \b e1 \s+ e2 ... \s+ ek \b, where an element is a group of literal      *)
(* alternatives or \w+.  An optional last letter (compared?, helps?) is    *)
(* written as two alternatives, and \bvs\b|\bversus\b as one group.        *)

Lit(alternatives) == [lit |-> TRUE, alts |-> alternatives]
AnyWord == [lit |-> FALSE, alts |-> {}]

IsWordAt(text, i) == i >= 1 /\ i <= Len(text) /\ IsWordChar(text[i])

\* \b between the characters i-1 and i
WordBoundary(text, i) == IsWordAt(text, i - 1) # IsWordAt(text, i)

LiteralAt(text, i, w) ==
  /\ i + Len(w) - 1 <= Len(text)
  /\ \A k \in 1..Len(w) : text[i + k - 1] = w[k]

\* the first index from i on that holds no whitespace (\s+ is greedy)
RECURSIVE SkipWhitespace(_, _)
SkipWhitespace(text, i) ==
  IF i <= Len(text) /\ IsWhitespace(text[i]) THEN SkipWhitespace(text, i + 1) ELSE i

\* the first index from i on that holds no word character (\w+ is greedy)
RECURSIVE SkipWord(_, _)
SkipWord(text, i) ==
  IF i <= Len(text) /\ IsWordChar(text[i]) THEN SkipWord(text, i + 1) ELSE i

RECURSIVE MatchElements(_, _, _, _)
MatchElements(pattern, k, text, i) ==
  LET Rest(j) ==
        IF k = Len(pattern) THEN WordBoundary(text, j)
        ELSE LET n == SkipWhitespace(text, j)
             IN  n > j /\ MatchElements(pattern, k + 1, text, n)
  IN  IF pattern[k].lit
      THEN \E w \in pattern[k].alts : LiteralAt(text, i, w) /\ Rest(i + Len(w))
      ELSE LET j == SkipWord(text, i) IN j > i /\ Rest(j)

\* Regex::is_match
is_match(pattern, text) ==
  \E i \in 1..Len(text) : WordBoundary(text, i) /\ MatchElements(pattern, 1, text, i)

----------------------------------------------------------------------------
(* ShellCommandDetector: the pure parts.                                   *)

question_words ==
  {<<"w", "h", "a", "t", " ">>,
   <<"h", "o", "w", " ">>,
   <<"w", "h", "y", " ">>,
   <<"w", "h", "e", "n", " ">>,
   <<"w", "h", "e", "r", "e", " ">>,
   <<"w", "h", "o", " ">>}

starters ==
  {<<"t", "e", "l", "l", " ", "m", "e">>,
   <<"c", "a", "n", " ", "y", "o", "u">>,
   <<"p", "l", "e", "a", "s", "e", " ">>,
   <<"i", " ", "w", "a", "n", "t">>,
   <<"i", " ", "n", "e", "e", "d">>,
   <<"c", "o", "u", "l", "d", " ", "y", "o", "u">>,
   <<"w", "o", "u", "l", "d", " ", "y", "o", "u">>,
   <<"h", "e", "l", "p", " ", "m", "e">>}

\* a faulty variant: the prefixes compared with the text as typed, not lower-cased
is_obvious_natural_language_case_sensitive(text) ==
  IF ends_with(text, "?") THEN TRUE
  ELSE IF \E w \in question_words : starts_with(text, w) THEN TRUE
  ELSE \E s \in starters : starts_with(text, s)

is_obvious_natural_language(text) ==
  LET text_lower == to_lowercase(text)
  IN  IF ends_with(text_lower, "?") THEN TRUE
      ELSE IF \E w \in question_words : starts_with(text_lower, w) THEN TRUE
      ELSE \E s \in starters : starts_with(text_lower, s)

builtins ==
  {
    <<"l", "s">>, <<"c", "d">>, <<"p", "w", "d">>, <<"e", "c", "h", "o">>,
    <<"e", "x", "p", "o", "r", "t">>, <<"s", "o", "u", "r", "c", "e">>,
    <<"a", "l", "i", "a", "s">>, <<"u", "n", "a", "l", "i", "a", "s">>,
    <<"h", "i", "s", "t", "o", "r", "y">>, <<"j", "o", "b", "s">>, <<"f", "g">>, <<"b", "g">>,
    <<"k", "i", "l", "l">>, <<"w", "a", "i", "t">>, <<"e", "x", "e", "c">>,
    <<"e", "v", "a", "l">>, <<"t", "e", "s", "t">>, <<"[">>, <<"p", "r", "i", "n", "t", "f">>,
    <<"r", "e", "a", "d">>, <<"s", "e", "t">>, <<"u", "n", "s", "e", "t">>,
    <<"s", "h", "i", "f", "t">>, <<"e", "x", "i", "t">>, <<"r", "e", "t", "u", "r", "n">>,
    <<"b", "r", "e", "a", "k">>, <<"c", "o", "n", "t", "i", "n", "u", "e">>,
    <<"w", "h", "i", "c", "h">>, <<"t", "y", "p", "e">>, <<"c", "o", "m", "m", "a", "n", "d">>,
    <<"b", "u", "i", "l", "t", "i", "n">>, <<"d", "e", "c", "l", "a", "r", "e">>,
    <<"l", "o", "c", "a", "l">>, <<"r", "e", "a", "d", "o", "n", "l", "y">>,
    <<"t", "r", "u", "e">>, <<"f", "a", "l", "s", "e">>, <<"g", "i", "t">>,
    <<"m", "k", "d", "i", "r">>, <<"r", "m">>, <<"c", "p">>, <<"m", "v">>, <<"c", "a", "t">>,
    <<"g", "r", "e", "p">>, <<"f", "i", "n", "d">>, <<"c", "h", "m", "o", "d">>,
    <<"s", "u", "d", "o">>, <<"a", "p", "t">>, <<"y", "u", "m">>, <<"d", "n", "f">>,
    <<"p", "a", "c", "m", "a", "n">>, <<"b", "r", "e", "w">>, <<"d", "o", "c", "k", "e", "r">>,
    <<"s", "s", "h">>, <<"c", "l", "e", "a", "r">>
  }

\* the loop of extract_unquoted_parts over text.chars()
RECURSIVE ExtractScan(_, _, _, _, _)
ExtractScan(text, i, in_quote, quote_char, result) ==
  IF i > Len(text) THEN result
  ELSE LET c == text[i]
       IN  IF ~in_quote /\ (c = "'" \/ c = "\"")
           THEN ExtractScan(text, i + 1, TRUE, c, result)
           ELSE IF in_quote /\ c = quote_char
           THEN ExtractScan(text, i + 1, FALSE, "", result)
           ELSE IF ~in_quote
           THEN ExtractScan(text, i + 1, in_quote, quote_char, Append(result, c))
           ELSE ExtractScan(text, i + 1, in_quote, quote_char, result)

extract_unquoted_parts(text) ==
  LET result == ExtractScan(text, 1, FALSE, "", <<>>)
      unquoted_text == trim(result)
      first_space == find(unquoted_text, " ")
  IN  IF first_space > 0
      THEN trim(SubSeq(unquoted_text, first_space, Len(unquoted_text)))
      ELSE <<>>

natural_indicators ==
  <<
    <<Lit({<<"b", "e", "t", "t", "e", "r">>, <<"w", "o", "r", "s", "e">>, <<"b", "e", "s", "t">>, <<"w", "o", "r", "s", "t">>}),
      Lit({<<"t", "h", "a", "n">>, <<"o", "f">>})>>,
    <<Lit({<<"c", "o", "m", "p", "a", "r", "e">>, <<"c", "o", "m", "p", "a", "r", "e", "d">>}),
      Lit({<<"t", "o">>})>>,
    <<Lit({<<"v", "s">>, <<"v", "e", "r", "s", "u", "s">>})>>,
    <<Lit({<<"m", "y">>}),
      Lit({<<"f", "a", "v", "o", "r", "i", "t", "e">>, <<"p", "r", "e", "f", "e", "r", "r", "e", "d">>, <<"p", "e", "r", "s", "o", "n", "a", "l">>})>>,
    <<Lit({<<"i", "s">>}),
      Lit({<<"m", "y">>}),
      Lit({<<"f", "a", "v", "o", "r", "i", "t", "e">>, <<"p", "r", "e", "f", "e", "r", "r", "e", "d">>})>>,
    <<Lit({<<"c", "a", "n">>}),
      Lit({<<"l", "o", "c", "a", "t", "e">>, <<"f", "i", "n", "d">>, <<"s", "e", "a", "r", "c", "h">>, <<"h", "e", "l", "p">>, <<"a", "s", "s", "i", "s", "t">>, <<"m", "a", "n", "a", "g", "e">>, <<"h", "a", "n", "d", "l", "e">>, <<"c", "r", "e", "a", "t", "e">>, <<"r", "e", "m", "o", "v", "e">>, <<"d", "i", "s", "p", "l", "a", "y">>, <<"s", "h", "o", "w">>})>>,
    <<Lit({<<"h", "e", "l", "p">>, <<"h", "e", "l", "p", "s">>, <<"a", "s", "s", "i", "s", "t">>, <<"a", "s", "s", "i", "s", "t", "s">>}),
      Lit({<<"n", "a", "v", "i", "g", "a", "t", "e">>, <<"w", "i", "t", "h">>, <<"y", "o", "u">>, <<"m", "e">>, <<"u", "s">>})>>,
    <<Lit({<<"i", "s">>}),
      Lit({<<"t", "h", "e">>, <<"t", "h", "i", "s">>, <<"t", "h", "a", "t">>, <<"a">>, <<"a", "n">>})>>,
    <<Lit({<<"a", "r", "e">>}),
      Lit({<<"t", "h", "e">>, <<"t", "h", "e", "s", "e">>, <<"t", "h", "o", "s", "e">>})>>,
    <<Lit({<<"w", "h", "i", "c", "h">>}),
      Lit({<<"o", "n", "e">>, <<"i", "s">>, <<"a", "r", "e">>})>>,
    <<Lit({<<"c", "a", "n">>, <<"c", "o", "u", "l", "d">>, <<"s", "h", "o", "u", "l", "d">>, <<"w", "o", "u", "l", "d">>}),
      Lit({<<"y", "o", "u">>})>>,
    <<Lit({<<"p", "l", "e", "a", "s", "e">>}),
      Lit({<<"h", "e", "l", "p">>, <<"t", "e", "l", "l">>, <<"s", "h", "o", "w">>})>>,
    <<Lit({<<"t", "e", "l", "l">>}),
      Lit({<<"m", "e">>}),
      Lit({<<"a", "b", "o", "u", "t">>})>>,
    <<Lit({<<"h", "e", "l", "p">>}),
      Lit({<<"m", "e">>}),
      Lit({<<"w", "i", "t", "h">>, <<"u", "n", "d", "e", "r", "s", "t", "a", "n", "d">>})>>,
    <<Lit({<<"t", "h", "e">>}),
      Lit({<<"l", "a", "t", "e", "s", "t">>, <<"n", "e", "w", "e", "s", "t">>, <<"o", "l", "d", "e", "s", "t">>, <<"c", "u", "r", "r", "e", "n", "t">>, <<"m", "a", "i", "n">>, <<"p", "r", "i", "m", "a", "r", "y">>, <<"b", "e", "s", "t">>})>>,
    <<Lit({<<"a">>}),
      Lit({<<"n", "e", "w">>, <<"g", "o", "o", "d">>, <<"b", "a", "d">>, <<"b", "e", "t", "t", "e", "r">>, <<"s", "i", "m", "p", "l", "e">>, <<"u", "s", "e", "f", "u", "l">>})>>,
    <<Lit({<<"a", "n">>}),
      Lit({<<"o", "l", "d">>, <<"n", "e", "w">>, <<"e", "x", "i", "s", "t", "i", "n", "g">>})>>,
    <<Lit({<<"h", "o", "w">>}),
      Lit({<<"t", "o">>, <<"d", "o">>, <<"d", "o", "e", "s">>})>>,
    <<Lit({<<"w", "h", "a", "t">>}),
      Lit({<<"i", "s">>, <<"a", "r", "e">>, <<"d", "o", "e", "s">>})>>,
    <<Lit({<<"w", "h", "y">>}),
      Lit({<<"i", "s">>, <<"a", "r", "e">>, <<"d", "o", "e", "s">>})>>,
    <<Lit({<<"t", "h", "i", "s">>}),
      Lit({<<"c", "o", "m", "m", "a", "n", "d">>, <<"f", "i", "l", "e">>, <<"d", "i", "r", "e", "c", "t", "o", "r", "y">>, <<"i", "s">>})>>,
    <<Lit({<<"t", "h", "a", "t">>}),
      Lit({<<"c", "o", "m", "m", "a", "n", "d">>, <<"f", "i", "l", "e">>, <<"d", "i", "r", "e", "c", "t", "o", "r", "y">>})>>,
    <<Lit({<<"a", "l", "l">>}),
      AnyWord,
      Lit({<<"f", "i", "l", "e", "s">>, <<"d", "i", "r", "e", "c", "t", "o", "r", "i", "e", "s">>, <<"c", "o", "m", "m", "a", "n", "d", "s">>, <<"i", "n">>})>>
  >>

common_words ==
  {
    <<"t", "h", "e">>, <<"i", "s">>, <<"a", "r", "e">>, <<"a", "n", "d">>, <<"o", "r">>,
    <<"b", "u", "t">>, <<"f", "o", "r">>, <<"t", "o">>, <<"o", "f">>, <<"i", "n">>,
    <<"o", "n">>, <<"a", "t">>, <<"b", "y">>, <<"w", "i", "t", "h">>, <<"a", "l", "l">>
  }

\* 0.4 as the f32 the comparison uses: 13421773 * 2^-25
F32_0_4 == 13421773

\* a faulty variant: >= 0.4 in place of > 0.4
common_ratio_exceeds_inclusive(common_count, len) ==
  IF 2 * common_count >= len THEN TRUE
  ELSE IF 4 * common_count < len THEN FALSE
  ELSE LET scaled == common_count * (2 ^ 25)
           q == scaled \div len
           r == scaled % len
           rounded == IF 2 * r > len \/ (2 * r = len /\ q % 2 = 1) THEN q + 1 ELSE q
       IN  rounded >= F32_0_4

\* common_count as f32 / words.len() as f32 > 0.4, computed as the f32
\* division rounds: a quotient in [0.25, 0.5) is a multiple of 2^-25, rounded
\* to nearest, ties to even
common_ratio_exceeds(common_count, len) ==
  IF 2 * common_count >= len THEN TRUE
  ELSE IF 4 * common_count < len THEN FALSE
  ELSE LET scaled == common_count * (2 ^ 25)
           q == scaled \div len
           r == scaled % len
           rounded == IF 2 * r > len \/ (2 * r = len /\ q % 2 = 1) THEN q + 1 ELSE q
       IN  rounded > F32_0_4

check_natural_language_patterns(text) ==
  IF trim(text) = <<>> THEN TRUE
  ELSE LET text_lower == to_lowercase(text)
       IN  IF \E p \in DOMAIN natural_indicators : is_match(natural_indicators[p], text_lower)
           THEN FALSE
           ELSE LET words == split_whitespace(text_lower)
                    common_count ==
                      Cardinality({i \in 1..Len(words) : words[i] \in common_words})
                IN  IF Len(words) > 2 /\ common_ratio_exceeds(common_count, Len(words))
                    THEN FALSE
                    ELSE TRUE

args_follow_shell_patterns_lenient(original_input, parsed_args) ==
  IF parsed_args = <<>> THEN TRUE
  ELSE LET has_quotes == contains(original_input, "'") \/ contains(original_input, "\"")
       IN  IF has_quotes
           THEN LET unquoted_parts == extract_unquoted_parts(original_input)
                IN  IF trim(unquoted_parts) = <<>> THEN TRUE
                    ELSE check_natural_language_patterns(unquoted_parts)
           ELSE check_natural_language_patterns(join(parsed_args))

----------------------------------------------------------------------------
(* ShellCommandDetector: the parts that read or grow available_commands.   *)
(* The outcome of the `which` subprocess is an input (which_ok): the       *)
(* environment decides it.  Besides its result an operator reports what it *)
(* touched: lookup (available_commands.contains was evaluated) and which   *)
(* (the names passed to the subprocess, in order).                         *)

\* a faulty variant: a successful check is not cached
command_exists_runtime_uncached(commands, command, which_ok) ==
  [exists |-> which_ok, commands |-> commands]

\* a faulty variant: the name is cached whatever the check says
command_exists_runtime_cache_on_failure(commands, command, which_ok) ==
  [exists |-> which_ok, commands |-> commands \cup {command}]

command_exists_runtime(commands, command, which_ok) ==
  IF which_ok
  THEN [exists |-> TRUE, commands |-> commands \cup {command}]
  ELSE [exists |-> FALSE, commands |-> commands]

\* a faulty variant: the inventory is consulted before the builtin set
is_valid_command_inventory_first(commands, command, which_ok) ==
  IF starts_with(command, <<".", "/">>) \/ starts_with(command, <<"/">>) \/ contains(command, "/")
  THEN [valid |-> TRUE, commands |-> commands, lookup |-> FALSE, which |-> <<>>]
  ELSE IF command \in commands
  THEN [valid |-> TRUE, commands |-> commands, lookup |-> TRUE, which |-> <<>>]
  ELSE IF command \in builtins
  THEN [valid |-> TRUE, commands |-> commands, lookup |-> TRUE, which |-> <<>>]
  ELSE LET r == command_exists_runtime(commands, command, which_ok)
       IN  [valid |-> r.exists, commands |-> r.commands, lookup |-> TRUE,
            which |-> <<command>>]

is_valid_command(commands, command, which_ok) ==
  IF starts_with(command, <<".", "/">>) \/ starts_with(command, <<"/">>) \/ contains(command, "/")
  THEN [valid |-> TRUE, commands |-> commands, lookup |-> FALSE, which |-> <<>>]
  ELSE IF command \in builtins
  THEN [valid |-> TRUE, commands |-> commands, lookup |-> FALSE, which |-> <<>>]
  ELSE IF command \in commands
  THEN [valid |-> TRUE, commands |-> commands, lookup |-> TRUE, which |-> <<>>]
  ELSE LET r == command_exists_runtime(commands, command, which_ok)
       IN  [valid |-> r.exists, commands |-> r.commands, lookup |-> TRUE,
            which |-> <<command>>]

\* a faulty variant: a line the tokenizer rejects is split on whitespace instead
tokenize_or_split_whitespace(user_input) ==
  LET split == shell_words_split(user_input)
  IN  IF split.ok THEN split ELSE [ok |-> TRUE, words |-> split_whitespace(user_input)]

\* shell_words::split(user_input), as is_shell_command calls it
tokenize(user_input) == shell_words_split(user_input)

NoSplit == [ok |-> FALSE, words |-> <<>>]

\* the result of a call that returns before command validation
Unvalidated(commands, tokenized, split) ==
  [verdict |-> FALSE, commands |-> commands, tokenized |-> tokenized, split |-> split,
   validated |-> FALSE, valid |-> FALSE, lookup |-> FALSE, which |-> <<>>]

is_shell_command(commands, user_input, which_ok) ==
  IF trim(user_input) = <<>> THEN Unvalidated(commands, FALSE, NoSplit)
  ELSE IF is_obvious_natural_language(user_input) THEN Unvalidated(commands, FALSE, NoSplit)
  ELSE LET split == tokenize(user_input)
       IN  IF ~split.ok THEN Unvalidated(commands, TRUE, split)
           ELSE IF split.words = <<>> THEN Unvalidated(commands, TRUE, split)
           ELSE LET command == split.words[1]
                    args == Tail(split.words)
                    v == is_valid_command(commands, command, which_ok)
                IN  [verdict |-> IF ~v.valid THEN FALSE
                                 ELSE args_follow_shell_patterns_lenient(user_input, args),
                     commands |-> v.commands, tokenized |-> TRUE, split |-> split,
                     validated |-> TRUE, valid |-> v.valid, lookup |-> v.lookup,
                     which |-> v.which]

\* .take(10)
MaxSuggestions == 10

take(s, n) == SubSeq(s, 1, IF Len(s) < n THEN Len(s) ELSE n)

\* a faulty variant: no .take(10)
get_command_suggestions_uncapped(iter, partial) ==
  LET Matches(cmd) == starts_with(cmd, partial)
  IN  SelectSeq(iter, Matches)

\* iter is available_commands.iter(): the set's names in the HashSet's order
get_command_suggestions(iter, partial) ==
  LET Matches(cmd) == starts_with(cmd, partial)
  IN  take(SelectSeq(iter, Matches), MaxSuggestions)

\* ShellCommandHinter::hint
hint(iter, line) ==
  LET suggestions == get_command_suggestions(iter, line)
  IN  IF suggestions = <<>> THEN [some |-> FALSE, text |-> <<>>, suggestions |-> suggestions]
      ELSE LET suggestion == suggestions[1]
           IN  [some |-> TRUE,
                text |-> IF starts_with(suggestion, line)
                         THEN SubSeq(suggestion, Len(line) + 1, Len(suggestion))
                         ELSE suggestion,
                suggestions |-> suggestions]

----------------------------------------------------------------------------
(* The environment of a run: what construction found, what the user types. *)

\* available_commands after ShellCommandDetector::new(): the executables of
\* the PATH directories and the alias names of one environment
InitialCommands ==
  {<<"g", "c", "c">>, <<"g", "d", "b">>, <<"g", "e", "m">>, <<"g", "i", "t">>, <<"g", "o">>, <<"g", "p", "g">>,
   <<"g", "s">>, <<"g", "z", "i", "p">>, <<"g", "a", "w", "k">>, <<"g", "i", "m", "p">>, <<"g", "r", "e", "p">>,
   <<"l", "s">>, <<"w", "h", "o">>, <<"l", "l">>}

\* the orders a HashSet may iterate in are not specified: the model takes the
\* rotations, by up to MaxShift places, of one enumeration and of its reverse
MaxShift == 1

RECURSIVE SetToSeq(_)
SetToSeq(S) ==
  IF S = {} THEN <<>>
  ELSE LET x == CHOOSE y \in S : TRUE IN <<x>> \o SetToSeq(S \ {x})

Reverse(s) == [i \in 1..Len(s) |-> s[Len(s) + 1 - i]]

Rotate(s, k) == [i \in 1..Len(s) |-> s[((i - 1 + k) % Len(s)) + 1]]

IterationOrders(S) ==
  IF S = {} THEN {<<>>}
  ELSE LET base == SetToSeq(S)
       IN  {Rotate(base, k) : k \in 0..MaxShift} \cup {Rotate(Reverse(base), k) : k \in 0..MaxShift}

\* the lines the user types: a leading word and a tail
LineHeads ==
  {<<"l", "s">>, <<"c", "d">>, <<"w", "h", "o">>, <<"g", "c", "c">>, <<"f", "o", "o">>, <<".", "/", "r", "u", "n">>,
   <<"w", "h", "a", "t">>, <<"P", "l", "e", "a", "s", "e">>, <<"e", "x", "i", "t">>, <<"'", "l", "s", "'">>}

LineTails ==
  {<<>>, <<" ", "-", "l", "a">>, <<" ", "/", "t", "m", "p">>, <<" ", "'", "a", " ", "b", "'">>, <<" ", "'", "x">>, <<" ", "i", "t", "?">>, <<" ", "i", "s", " ", "t", "h", "e", " ", "b", "e", "s", "t">>,
   <<" ", "\"", "i", "s", " ", "t", "h", "e", "\"", " ", "f">>, <<" ", "t", "o", " ", "t", "h", "e", " ", "x">>, <<" ", " ">>}

ReplLines == {h \o t : h \in LineHeads, t \in LineTails}

\* what the user has typed when the hinter is asked
Partials == {<<>>, <<"g">>, <<"g", "i">>, <<"G">>, <<"w", "h", "o">>, <<"x">>}

\* the working directory the process starts in
StartDir == <<"/", "h", "o", "m", "e">>

----------------------------------------------------------------------------
(* State.                                                                  *)

VARIABLES
  available_commands,  \* ShellCommandDetector.available_commands
  pc,                  \* where main's loop is: "prompt", "readline", "classify",
                       \* "execute", "exited"; "fn" in the function specification
  input,               \* main's `input`: the trimmed line of this iteration
  call,                \* what the last is_shell_command call did and returned
  commands_before,     \* available_commands when that call began
  found,               \* history: the names a runtime check has succeeded for
  current_dir,         \* the path last given to a successful env::set_current_dir
  exec,                \* what this iteration executed
  hinted,              \* the hinter's last answer while the line is typed
  fn                   \* the function specification's input and result

vars == <<available_commands, pc, input, call, commands_before, found, current_dir, exec,
          hinted, fn>>

NoCall ==
  [done |-> FALSE, text |-> <<>>, verdict |-> FALSE, tokenized |-> FALSE, split |-> NoSplit,
   validated |-> FALSE, valid |-> FALSE, lookup |-> FALSE, which |-> <<>>,
   which_ok |-> FALSE]
NoExec == [kind |-> "none"]
NoHint == [asked |-> FALSE]
NoFn == [op |-> "none"]

Init ==
  /\ available_commands = InitialCommands
  /\ pc = "prompt"
  /\ input = <<>>
  /\ call = NoCall
  /\ commands_before = InitialCommands
  /\ found = {}
  /\ current_dir = StartDir
  /\ exec = NoExec
  /\ hinted = NoHint
  /\ fn = NoFn

----------------------------------------------------------------------------
(* main's loop.                                                            *)

\* the top of the loop: the prompt is built and rl.readline is entered
Prompt ==
  /\ pc = "prompt"
  /\ pc' = "readline"
  /\ input' = <<>>
  /\ call' = NoCall
  /\ exec' = NoExec
  /\ hinted' = NoHint
  /\ commands_before' = available_commands
  /\ UNCHANGED <<available_commands, found, current_dir, fn>>

\* while the line is typed, rustyline asks the helper for a hint
Hint ==
  /\ pc = "readline"
  /\ \E partial \in Partials, iter \in IterationOrders(available_commands) :
       hinted' = [asked |-> TRUE, partial |-> partial, answer |-> hint(iter, partial)]
  /\ UNCHANGED <<available_commands, pc, input, call, commands_before, found, current_dir,
                 exec, fn>>

\* Err(_) => println!("No Input")
ReadError ==
  /\ pc = "readline"
  /\ pc' = "prompt"
  /\ UNCHANGED <<available_commands, input, call, commands_before, found, current_dir,
                 exec, hinted, fn>>

\* Ok(line): trim, and leave the loop on "exit"
ReadLine ==
  /\ pc = "readline"
  /\ \E line \in ReplLines :
       /\ input' = trim(line)
       /\ pc' = IF eq_ignore_ascii_case(trim(line), <<"e", "x", "i", "t">>) THEN "exited" ELSE "classify"
  /\ hinted' = NoHint
  /\ UNCHANGED <<available_commands, call, commands_before, found, current_dir, exec, fn>>

\* a faulty variant: the verdict is not looked at
after_classify_always_execute(verdict) == "execute"

\* if !is_shell_command { continue; }
after_classify(verdict) == IF ~verdict THEN "prompt" ELSE "execute"

\* detector.borrow_mut().is_shell_command(input)
Classify ==
  /\ pc = "classify"
  /\ \E which_ok \in BOOLEAN :
       LET r == is_shell_command(available_commands, input, which_ok)
       IN  /\ available_commands' = r.commands
           /\ call' = [done |-> TRUE, text |-> input, verdict |-> r.verdict,
                       tokenized |-> r.tokenized, split |-> r.split,
                       validated |-> r.validated, valid |-> r.valid, lookup |-> r.lookup,
                       which |-> r.which,
                       which_ok |-> (r.which # <<>> /\ which_ok)]
           /\ found' = IF r.which # <<>> /\ which_ok
                       THEN found \cup {r.which[i] : i \in 1..Len(r.which)}
                       ELSE found
           /\ pc' = after_classify(r.verdict)
  /\ commands_before' = available_commands
  /\ UNCHANGED <<input, current_dir, exec, hinted, fn>>

\* the rest of the iteration: "cd" changes the directory, anything else is spawned
Execute ==
  /\ pc = "execute"
  /\ LET parts == split_whitespace(trim(input))
     IN  IF parts = <<>>
         THEN exec' = NoExec /\ UNCHANGED current_dir
         ELSE LET command == parts[1]
                  args == Tail(parts)
              IN  IF command = <<"c", "d">>
                  THEN \E ok \in BOOLEAN :
                         LET new_dir == IF args = <<>> THEN <<"/">> ELSE args[1]
                         IN  /\ exec' = [kind |-> "cd", text |-> input, program |-> command,
                                         args |-> args, ok |-> ok]
                             /\ current_dir' = IF ok THEN new_dir ELSE current_dir
                  ELSE \E ok \in BOOLEAN :
                         /\ exec' = [kind |-> "spawn", text |-> input, program |-> command,
                                     args |-> args, ok |-> ok]
                         /\ UNCHANGED current_dir
  /\ pc' = "prompt"
  /\ UNCHANGED <<available_commands, input, call, commands_before, found, hinted, fn>>

Next == Prompt \/ Hint \/ ReadError \/ ReadLine \/ Classify \/ Execute

Spec == Init /\ [][Next]_vars

----------------------------------------------------------------------------
(* The function specification: the detector's functions applied to texts   *)
(* drawn from two bounded families.                                        *)

\* a command line with one quoted argument: command, arguments before it, the
\* quoted argument, and up to MaxPost unquoted words after it
MaxPost == 2

\* a text to scan: up to MaxWords words
MaxWords == 5

FnCommands == {<<"g", "r", "e", "p">>, <<"'", "l", "s", "'">>, <<".", "/", "x">>}

FnBefore == {<<>>, <<" ", "-", "l">>, <<"\t", "-", "l">>}

QuoteChars == {"'", "\""}

\* what a quoted span may hold: anything but its own delimiter, which inside
\* double quotes may stand escaped
Contents(q) ==
  IF q = "'"
  THEN {<<>>, <<"x">>, <<"w", "h", "a", "t", " ", "i", "s", " ", "t", "h", "e">>, <<"a", "?">>, <<"\"", "i", "s", " ", "t", "h", "e", "\"">>}
  ELSE {<<>>, <<"x">>, <<"w", "h", "a", "t", " ", "i", "s", " ", "t", "h", "e">>, <<"i", "t", "'", "s">>, <<"\\", "\"", "i", "s", " ", "t", "h", "e", "\\", "\"">>}

ReferenceContent == <<"x">>

PostWords == {<<"f">>, <<"i", "s">>, <<"t", "h", "e">>}

ScanWords == {<<"T", "h", "e">>, <<"t", "o">>, <<"x">>, <<"i", "s">>}

WordSeqs(words, n) == UNION {[1..k -> words] : k \in 0..n}

RECURSIVE Spaced(_)
Spaced(words) == IF words = <<>> THEN <<>> ELSE <<" ">> \o words[1] \o Spaced(Tail(words))

QuotedLine(cmd, before, q, content, after) ==
  cmd \o before \o <<" ", q>> \o content \o <<q>> \o Spaced(after)

FnInit ==
  /\ available_commands = InitialCommands
  /\ pc = "fn"
  /\ input = <<>>
  /\ call = NoCall
  /\ commands_before = InitialCommands
  /\ found = {}
  /\ current_dir = StartDir
  /\ exec = NoExec
  /\ hinted = NoHint
  /\ \/ \E cmd \in FnCommands, before \in FnBefore, q \in QuoteChars,
          after \in WordSeqs(PostWords, MaxPost) :
          \E content \in Contents(q) :
            fn = [op |-> "input",
                  text |-> QuotedLine(cmd, before, q, content, after),
                  alt |-> QuotedLine(cmd, before, q, ReferenceContent, after)]
     \/ \E words \in WordSeqs(ScanWords, MaxWords) :
          fn = [op |-> "input", text |-> join(words), alt |-> join(words)]

FnExtract ==
  /\ pc = "fn" /\ fn.op = "input"
  /\ fn' = [op |-> "extract", text |-> fn.text, alt |-> fn.alt,
            out |-> extract_unquoted_parts(fn.text)]
  /\ UNCHANGED <<available_commands, pc, input, call, commands_before, found, current_dir,
                 exec, hinted>>

FnScan ==
  /\ pc = "fn" /\ fn.op = "input"
  /\ fn' = [op |-> "scan", text |-> fn.text, alt |-> fn.alt,
            out |-> check_natural_language_patterns(fn.text)]
  /\ UNCHANGED <<available_commands, pc, input, call, commands_before, found, current_dir,
                 exec, hinted>>

FnClassify ==
  /\ pc = "fn" /\ fn.op = "input"
  /\ \E which_ok \in BOOLEAN :
       LET r == is_shell_command(available_commands, fn.text, which_ok)
       IN  /\ available_commands' = r.commands
           /\ fn' = [op |-> "classify", text |-> fn.text, alt |-> fn.alt,
                     out |-> r.verdict, validated |-> r.validated, valid |-> r.valid,
                     split |-> r.split]
  /\ UNCHANGED <<pc, input, call, commands_before, found, current_dir, exec, hinted>>

FnNext == FnExtract \/ FnScan \/ FnClassify

FnSpec == FnInit /\ [][FnNext]_vars

----------------------------------------------------------------------------
(* Properties.                                                             *)

Range(s) == {s[i] : i \in DOMAIN s}

FirstWord(text) ==
  LET words == split_whitespace(text) IN IF words = <<>> THEN <<>> ELSE words[1]

\* the texts the short-circuit is stated for: a final '?', or one of the
\* question words or starters at the front, in any letter case
ObviousByStatement(text) ==
  \/ ends_with(text, "?")
  \/ \E p \in question_words \cup starters : starts_with(to_lowercase(text), p)

\* the characters of text after its first token that lie outside the quoted
\* spans the tokenizer sees (in_cmd: the first token is not over yet)
RECURSIVE ArgumentTextFrom(_, _, _, _, _)
ArgumentTextFrom(text, i, state, in_cmd, acc) ==
  IF i > Len(text) THEN acc
  ELSE LET c == text[i]
           keep == IF in_cmd THEN acc ELSE Append(acc, c)
           delim == c \in {"\t", " ", "\n"}
       IN  CASE state = "Delimiter" ->
                  IF c = "'" THEN ArgumentTextFrom(text, i + 1, "SingleQuoted", in_cmd, acc)
                  ELSE IF c = "\"" THEN ArgumentTextFrom(text, i + 1, "DoubleQuoted", in_cmd, acc)
                  ELSE IF delim THEN ArgumentTextFrom(text, i + 1, "Delimiter", in_cmd, keep)
                  ELSE IF c = "#" THEN ArgumentTextFrom(text, i + 1, "Comment", in_cmd, keep)
                  ELSE IF c = "\\" THEN ArgumentTextFrom(text, i + 1, "Backslash", in_cmd, keep)
                  ELSE ArgumentTextFrom(text, i + 1, "Unquoted", in_cmd, keep)
             [] state = "Unquoted" ->
                  IF c = "'" THEN ArgumentTextFrom(text, i + 1, "SingleQuoted", in_cmd, acc)
                  ELSE IF c = "\"" THEN ArgumentTextFrom(text, i + 1, "DoubleQuoted", in_cmd, acc)
                  ELSE IF delim
                       THEN ArgumentTextFrom(text, i + 1, "Delimiter", FALSE, Append(acc, c))
                  ELSE IF c = "\\" THEN ArgumentTextFrom(text, i + 1, "Backslash", in_cmd, keep)
                  ELSE ArgumentTextFrom(text, i + 1, "Unquoted", in_cmd, keep)
             [] state = "Backslash" ->
                  ArgumentTextFrom(text, i + 1, "Unquoted", in_cmd, keep)
             [] state = "SingleQuoted" ->
                  IF c = "'" THEN ArgumentTextFrom(text, i + 1, "Unquoted", in_cmd, acc)
                  ELSE ArgumentTextFrom(text, i + 1, "SingleQuoted", in_cmd, acc)
             [] state = "DoubleQuoted" ->
                  IF c = "\"" THEN ArgumentTextFrom(text, i + 1, "Unquoted", in_cmd, acc)
                  ELSE IF c = "\\"
                       THEN ArgumentTextFrom(text, i + 1, "DoubleQuotedBackslash", in_cmd, acc)
                  ELSE ArgumentTextFrom(text, i + 1, "DoubleQuoted", in_cmd, acc)
             [] state = "DoubleQuotedBackslash" ->
                  ArgumentTextFrom(text, i + 1, "DoubleQuoted", in_cmd, acc)
             [] OTHER -> ArgumentTextFrom(text, i + 1, "Comment", in_cmd, keep)

UnquotedArgumentText(text) == trim(ArgumentTextFrom(text, 1, "Delimiter", TRUE, <<>>))

\* C1: a line that ends with '?' or starts, in any letter case, with a question
\* word or a conversational starter is classified false before tokenization and
\* command validation, whatever its leading token: the inventory is unchanged
\* and `which` is not run.
C1_ObviousNaturalLanguageRejected ==
  (call.done /\ ObviousByStatement(call.text)) =>
    /\ ~call.verdict
    /\ ~call.tokenized
    /\ ~call.validated
    /\ ~call.lookup
    /\ call.which = <<>>
    /\ available_commands = commands_before

\* a question whose leading word is a builtin or an inventory name was classified
C1_Witness ==
  /\ call.done
  /\ ObviousByStatement(call.text)
  /\ FirstWord(call.text) \in builtins \cup commands_before
  /\ ~call.verdict

\* C2: the loop changes the directory or spawns only in an iteration whose line
\* is_shell_command has classified true; after a false verdict nothing is
\* executed.
C2_ExecutedOnlyAfterTrueVerdict ==
  [][(exec' # exec /\ exec'.kind # "none") \/ current_dir' # current_dir
       => /\ call.done /\ call.verdict /\ call.text = input
          /\ exec'.kind # "none" /\ exec'.text = call.text]_vars

\* a classified line was executed: a directory change that succeeded
C2_Witness ==
  /\ exec.kind = "cd" /\ exec.ok
  /\ call.done /\ call.verdict /\ call.text = exec.text
  /\ current_dir # StartDir

\* C3: with a valid command, what a quoted argument holds does not change the
\* verdict: a line and the same line with another content in the quoted
\* argument are classified alike, and a line with nothing but the command
\* outside its quotes is classified true.
C3_QuotedContentDoesNotChangeVerdict ==
  (/\ fn.op = "classify"
   /\ fn.valid
   /\ shell_words_split(fn.alt).ok
   /\ (contains(fn.text, "'") \/ contains(fn.text, "\"")))
    => /\ fn.out = is_shell_command(InitialCommands, fn.alt, FALSE).verdict
       /\ UnquotedArgumentText(fn.text) = <<>> => fn.out

\* C4: a line the tokenizer rejects is classified false, whatever its leading
\* word, and command validation is not reached: no inventory lookup, no
\* `which`, the inventory unchanged.
C4_TokenizationFailureRejected ==
  (call.done /\ ~shell_words_split(call.text).ok) =>
    /\ ~call.verdict
    /\ ~call.validated
    /\ ~call.lookup
    /\ call.which = <<>>
    /\ available_commands = commands_before

\* tokenization was tried on a line with a builtin or inventory name in front,
\* and failed
C4_Witness ==
  /\ call.done /\ call.tokenized /\ ~call.split.ok
  /\ FirstWord(call.text) \in builtins \cup commands_before
  /\ ~call.verdict

\* C5: validation goes path, builtin, inventory, runtime check: a token with a
\* '/' or a builtin is valid without inventory lookup or runtime check; `which`
\* runs only for a token that is none of path-like, builtin, in the inventory;
\* a token that passes no layer gives verdict false.
C5_ValidationLayers ==
  (call.done /\ call.validated) =>
    LET command == call.split.words[1]
        path_like == contains(command, "/")
        builtin == command \in builtins
        known == command \in commands_before
    IN  /\ (path_like \/ builtin) => (call.valid /\ ~call.lookup /\ call.which = <<>>)
        /\ (~path_like /\ ~builtin /\ known) => (call.valid /\ call.which = <<>>)
        /\ call.which # <<>> => (~path_like /\ ~builtin /\ ~known /\ call.which = <<command>>)
        /\ (~path_like /\ ~builtin /\ ~known) => (call.which = <<command>>)
        /\ (~path_like /\ ~builtin /\ ~known /\ ~call.which_ok) => (~call.valid /\ ~call.verdict)

\* a builtin that is in the inventory too was validated without a lookup
C5_Witness ==
  /\ call.done /\ call.validated
  /\ call.split.words[1] \in builtins \cap commands_before
  /\ ~call.lookup /\ call.valid

\* C6: once a runtime check has succeeded for a name, the name is in the
\* inventory, and no later call runs `which` for it.
C6_CachedNameNotCheckedAgain ==
  [][/\ found' \subseteq available_commands'
     /\ pc = "classify" => \A n \in found : n \notin Range(call'.which)]_vars

\* a later call whose command token was cached by an earlier runtime check
C6_Witness ==
  /\ call.done /\ call.validated
  /\ call.split.words[1] \in found \cap commands_before
  /\ call.valid /\ call.which = <<>>

\* C7: the inventory holds every name it held at construction, every other
\* name in it is one a runtime check succeeded for, and a call whose runtime
\* check fails fails that layer and leaves the inventory as it was.
C7_InventoryGrowsOnlyByFoundNames ==
  /\ InitialCommands \subseteq available_commands
  /\ commands_before \subseteq available_commands
  /\ (available_commands \ InitialCommands) \subseteq found
  /\ (call.done /\ call.which # <<>> /\ ~call.which_ok) =>
       (~call.valid /\ ~call.verdict /\ available_commands = commands_before)
  /\ (call.done /\ available_commands # commands_before) =>
       (call.which_ok /\ available_commands = commands_before \cup Range(call.which))

\* a runtime check failed in a session whose inventory had grown before
C7_Witness ==
  /\ call.done /\ call.which # <<>> /\ ~call.which_ok
  /\ available_commands # InitialCommands

Matching(partial) == {cmd \in available_commands : starts_with(cmd, partial)}

\* C8: get_command_suggestions(p) returns min(10, k) distinct names, k the
\* number of inventory names that start with p, each an inventory name that
\* starts with p; the inventory is as it was.
C8_SuggestionsArePrefixMatchesCappedAtTen ==
  hinted.asked =>
    LET s == hinted.answer.suggestions
        k == Cardinality(Matching(hinted.partial))
    IN  /\ Len(s) = IF k < 10 THEN k ELSE 10
        /\ \A i, j \in 1..Len(s) : s[i] = s[j] => i = j
        /\ Range(s) \subseteq Matching(hinted.partial)
        /\ available_commands = commands_before

\* more than ten names match and ten were returned
C8_Witness ==
  /\ hinted.asked
  /\ Cardinality(Matching(hinted.partial)) > 10
  /\ Len(hinted.answer.suggestions) = 10

MatchesAnIndicator(text) ==
  \E p \in DOMAIN natural_indicators : is_match(natural_indicators[p], to_lowercase(text))

WordCount(text) == Len(split_whitespace(text))

CommonCount(text) ==
  LET words == split_whitespace(to_lowercase(text))
  IN  Cardinality({i \in 1..Len(words) : words[i] \in common_words})

\* C9: a scanned text that matches no pattern is vetoed exactly when it has
\* more than 2 words and more than 0.4 of them are common words (5c > 2n).
C9_StopWordDensity ==
  (fn.op = "scan" /\ ~MatchesAnIndicator(fn.text)) =>
    (fn.out = FALSE <=>
       (WordCount(fn.text) > 2 /\ 5 * CommonCount(fn.text) > 2 * WordCount(fn.text)))

\* 2 common words of 5 is a fraction of exactly 0.4 and is not vetoed
C9_Witness ==
  /\ fn.op = "scan" /\ ~MatchesAnIndicator(fn.text)
  /\ WordCount(fn.text) = 5 /\ CommonCount(fn.text) = 2
  /\ fn.out = TRUE

\* C10: for an input that tokenizes, extract_unquoted_parts returns the text
\* outside the quoted spans with the command word dropped and the ends trimmed:
\* exactly the unquoted argument text.
C10_ResidueIsUnquotedArgumentText ==
  (fn.op = "extract" /\ shell_words_split(fn.text).ok) =>
    fn.out = UnquotedArgumentText(fn.text)

\* C11: what the loop executes is what the classifier looked at: the program it
\* runs is the command token is_shell_command validated, and the arguments it
\* passes are the argument tokens is_shell_command scanned.
C11_ExecutedIsWhatWasClassified ==
  (exec.kind # "none" /\ call.done /\ call.verdict /\ call.text = exec.text) =>
    /\ exec.program = call.split.words[1]
    /\ exec.args = Tail(call.split.words)

====
